---- MODULE Spec2Model ----
(***************************************************************************)
(* Model of the MCP wrapper generator (src/generate_wrappers.py).          *)
(*                                                                         *)
(* Two parts of the program are modelled:                                  *)
(*   - the generated invocation client, call_mcp_tool, whose text is       *)
(*     emitted by generate_mcp_client (lines 149-188): one ephemeral       *)
(*     stdio transport and one session per call;                           *)
(*   - the generator itself: sanitize_name, generate_wrapper_file and the  *)
(*     loop of main.                                                       *)
(* Strings are sequences of one-character strings, so that character-level *)
(* functions (sanitize_name, json.loads) are computed, not assumed.        *)
(***************************************************************************)
EXTENDS Integers, Sequences, FiniteSets, TLC

VARIABLES
    pc,         \* call -> position of the invocation inside call_mcp_tool
    srv,        \* call -> the server_name argument
    conn,       \* call -> index in procs of the transport it holds, 0 if none
    sess,       \* call -> index in sessions of the session it holds, 0 if none
    procs,      \* every stdio transport (subprocess) ever opened
    sessions,   \* every ClientSession ever entered
    outcome,    \* call -> what asyncio.run(_call()) hands to the caller
    server_table, \* the client module's global dict SERVERS, as it is now
    gpc,        \* position of main() of the generator
    gi,         \* index of the server the loop of main is at
    catalog,    \* server index -> the tools its list_tools answers
    files,      \* the artifacts written so far: file name -> content
    server_tools \* main's dict: server name -> list of tool names

clientVars == <<pc, srv, conn, sess, procs, sessions, outcome, server_table>>
genVars == <<gpc, gi, catalog, files, server_tools>>
vars == <<pc, srv, conn, sess, procs, sessions, outcome, server_table,
          gpc, gi, catalog, files, server_tools>>

(***************************************************************************)
(* Bounds.                                                                 *)
(***************************************************************************)
MaxCalls == 2      \* invocations of call_mcp_tool in one behaviour
MaxSegs == 2       \* content segments in one tool response
MaxTools == 2      \* tools one registry lists

Calls == 1..MaxCalls

(***************************************************************************)
(* Python values a call can return.  The tag t comes first in every        *)
(* record, so values of different Python types compare unequal.            *)
(***************************************************************************)
PyNone == [t |-> "None", v |-> <<>>]
PyInt(n) == [t |-> "int", v |-> <<n>>]
PyBool(b) == [t |-> "bool", v |-> <<b>>]
PyStr(s) == [t |-> "str", v |-> s]
PyList(l) == [t |-> "list", v |-> l]

(***************************************************************************)
(* json.loads, for the part of the JSON grammar the model's texts use:     *)
(* null, true, false, integers (an optional minus sign, then 0 or digits   *)
(* without a leading zero) and string literals without escapes.  Anything  *)
(* else raises JSONDecodeError.                                            *)
(***************************************************************************)
Digits == {"0", "1", "2", "3", "4", "5", "6", "7", "8", "9"}

DigitVal(ch) ==
    CASE ch = "0" -> 0 [] ch = "1" -> 1 [] ch = "2" -> 2 [] ch = "3" -> 3
      [] ch = "4" -> 4 [] ch = "5" -> 5 [] ch = "6" -> 6 [] ch = "7" -> 7
      [] ch = "8" -> 8 [] ch = "9" -> 9

RECURSIVE DecimalVal(_)
DecimalVal(ds) ==
    IF ds = <<>> THEN 0
    ELSE 10 * DecimalVal(SubSeq(ds, 1, Len(ds) - 1)) + DigitVal(ds[Len(ds)])

IsJsonNat(ds) ==
    /\ Len(ds) >= 1
    /\ \A i \in 1..Len(ds) : ds[i] \in Digits
    /\ (Len(ds) > 1 => ds[1] # "0")

IsJsonString(s) ==
    /\ Len(s) >= 2
    /\ s[1] = "\""
    /\ s[Len(s)] = "\""
    /\ \A i \in 2..(Len(s) - 1) : s[i] \notin {"\"", "\\"}

JSONDecodeError == [ok |-> FALSE, val |-> PyNone]

JsonLoads(s) ==
    IF s = <<"n", "u", "l", "l">> THEN [ok |-> TRUE, val |-> PyNone]
    ELSE IF s = <<"t", "r", "u", "e">> THEN [ok |-> TRUE, val |-> PyBool(TRUE)]
    ELSE IF s = <<"f", "a", "l", "s", "e">> THEN [ok |-> TRUE, val |-> PyBool(FALSE)]
    ELSE IF IsJsonNat(s) THEN [ok |-> TRUE, val |-> PyInt(DecimalVal(s))]
    ELSE IF Len(s) >= 2 /\ s[1] = "-" /\ IsJsonNat(Tail(s))
        THEN [ok |-> TRUE, val |-> PyInt(0 - DecimalVal(Tail(s)))]
    ELSE IF IsJsonString(s)
        THEN [ok |-> TRUE, val |-> PyStr(SubSeq(s, 2, Len(s) - 1))]
    ELSE JSONDecodeError

(***************************************************************************)
(* Tool responses.  A segment is a TextContent (it has a text attribute)   *)
(* or another content type (an image: no text attribute).  A response is   *)
(* a CallToolResult: its content list and its isError flag.  hasContent    *)
(* is FALSE for a result object without a content attribute.               *)
(***************************************************************************)
TextSeg(s) == [type |-> "text", text |-> s]
ImageSeg == [type |-> "image", text |-> <<>>]

HasText(seg) == seg.type = "text"

TextPool ==
    { <<"3", "0">>, <<"0", "7">>, <<"n", "u", "l", "l">>,
      <<"\"", "h", "i", "\"">>, <<"h", "i">>, <<>> }

SegPool == {TextSeg(s) : s \in TextPool} \cup {ImageSeg}

SeqsUpTo(S, n) == UNION {[1..k -> S] : k \in 0..n}

AllResponses ==
    {[hasContent |-> TRUE, content |-> c, isError |-> e] :
        c \in SeqsUpTo(SegPool, MaxSegs), e \in BOOLEAN}
    \cup {[hasContent |-> FALSE, content |-> <<>>, isError |-> FALSE]}

\* lines 180-184: texts = []; for item in result.content: if hasattr(item, "text")
RECURSIVE CollectTexts(_)
CollectTexts(content) ==
    IF content = <<>> THEN <<>>
    ELSE (IF HasText(Head(content)) THEN <<Head(content).text>> ELSE <<>>)
         \o CollectTexts(Tail(content))

\* mutant of DecodeResult: the first segment alone is decoded whenever it is
\* text, however many segments the content has
DecodeResultFirstOnly(result) ==
    IF result.hasContent /\ Len(result.content) > 0
    THEN IF HasText(result.content[1])
         THEN LET parsed == JsonLoads(result.content[1].text)
              IN IF parsed.ok THEN parsed.val
                 ELSE PyStr(result.content[1].text)
         ELSE PyList(CollectTexts(result.content))
    ELSE PyNone

\* mutant of DecodeResult: the list of texts is built only for more than one
\* segment, so a single segment without text falls through to return None
DecodeResultListOnlyForSeveral(result) ==
    IF result.hasContent /\ Len(result.content) > 0
    THEN IF Len(result.content) = 1
         THEN IF HasText(result.content[1])
              THEN LET parsed == JsonLoads(result.content[1].text)
                   IN IF parsed.ok THEN parsed.val
                      ELSE PyStr(result.content[1].text)
              ELSE PyNone
         ELSE PyList(CollectTexts(result.content))
    ELSE PyNone

\* lines 172-186: the value _call returns for a result
DecodeResult(result) ==
    IF result.hasContent /\ Len(result.content) > 0
    THEN IF Len(result.content) = 1 /\ HasText(result.content[1])
         THEN LET parsed == JsonLoads(result.content[1].text)
              IN IF parsed.ok THEN parsed.val
                 ELSE PyStr(result.content[1].text)
         ELSE PyList(CollectTexts(result.content))
    ELSE PyNone

(***************************************************************************)
(* The server table.  generate_mcp_client writes the generator's           *)
(* server_configs into the client as the module-level dict SERVERS.        *)
(***************************************************************************)
servers == << <<"d", "_", "t">>, <<"a", "-", "t">> >>

ServerNames == {servers[i] : i \in 1..Len(servers)}

SERVERS == [n \in ServerNames |-> [command |-> "python", args |-> n]]

\* a server_name no entry of SERVERS has
UnknownServer == <<"x">>

(***************************************************************************)
(* The invocation client: call_mcp_tool (generated, lines 149-188).        *)
(* A transport or session is named after the call that created it.         *)
(***************************************************************************)
NoProc == [cmd |-> <<>>, enters |-> 0, exits |-> 0]
NoSession == [proc |-> 0, enters |-> 0, initialized |-> FALSE,
              requests |-> 0, exits |-> 0]
NoResult == [hasContent |-> FALSE, content |-> <<>>, isError |-> FALSE]
Pending == [kind |-> "pending", val |-> PyNone, err |-> "", result |-> NoResult]
Raise(e) == [kind |-> "raise", val |-> PyNone, err |-> e, result |-> NoResult]
Return(v, r) == [kind |-> "return", val |-> v, err |-> "", result |-> r]

\* the responses the concurrent specification draws from
ResponsePool ==
    { [hasContent |-> TRUE, content |-> <<TextSeg(<<"3", "0">>)>>, isError |-> FALSE],
      [hasContent |-> TRUE, content |-> <<TextSeg(<<"h", "i">>)>>, isError |-> FALSE],
      [hasContent |-> TRUE, content |-> <<TextSeg(<<"h", "i">>)>>, isError |-> TRUE],
      [hasContent |-> TRUE, content |-> <<TextSeg(<<"3", "0">>), ImageSeg>>,
       isError |-> FALSE],
      [hasContent |-> TRUE, content |-> <<>>, isError |-> FALSE] }

ClientInit ==
    /\ pc = [c \in Calls |-> "idle"]
    /\ srv = [c \in Calls |-> <<>>]
    /\ conn = [c \in Calls |-> 0]
    /\ sess = [c \in Calls |-> 0]
    /\ procs = [c \in Calls |-> NoProc]
    /\ sessions = [c \in Calls |-> NoSession]
    /\ outcome = [c \in Calls |-> Pending]
    /\ server_table = SERVERS

\* mutant of CallMcpTool: SERVERS.get(server_name, <first entry>) instead of
\* SERVERS[server_name], so a lookup miss goes on to open a transport
CallMcpToolDefaultConfig(c, server_name) ==
    /\ pc[c] = "idle"
    /\ srv' = [srv EXCEPT ![c] = server_name]
    /\ pc' = [pc EXCEPT ![c] = "open_transport"]
    /\ UNCHANGED <<conn, sess, procs, sessions, outcome, server_table>>

\* lines 149-162, 188: the caller invokes call_mcp_tool; asyncio.run starts
\* _call, whose first statement is the lookup SERVERS[server_name].
CallMcpTool(c, server_name) ==
    /\ pc[c] = "idle"
    /\ srv' = [srv EXCEPT ![c] = server_name]
    /\ IF server_name \in DOMAIN server_table
       THEN /\ pc' = [pc EXCEPT ![c] = "open_transport"]
            /\ outcome' = outcome
       ELSE /\ pc' = [pc EXCEPT ![c] = "done"]
            /\ outcome' = [outcome EXCEPT ![c] = Raise("KeyError")]
    /\ UNCHANGED <<conn, sess, procs, sessions, server_table>>

\* mutant of StdioClientEnter: a connection pool; a transport another call
\* holds open for the same command is reused, a new one is started otherwise
StdioClientEnterPooled(c) ==
    /\ pc[c] = "open_transport"
    /\ LET open == {d \in Calls \ {c} :
                       /\ procs[d].enters > procs[d].exits
                       /\ procs[d].cmd = server_table[srv[c]].args}
       IN IF open # {}
          THEN /\ \E d \in open : conn' = [conn EXCEPT ![c] = d]
               /\ UNCHANGED procs
          ELSE /\ procs' = [procs EXCEPT ![c] =
                               [cmd |-> server_table[srv[c]].args,
                                enters |-> @.enters + 1, exits |-> @.exits]]
               /\ conn' = [conn EXCEPT ![c] = c]
    /\ pc' = [pc EXCEPT ![c] = "enter_session"]
    /\ UNCHANGED <<srv, sess, sessions, outcome, server_table>>

\* lines 163-166: stdio_client(...).__aenter__ starts the subprocess
StdioClientEnter(c) ==
    /\ pc[c] = "open_transport"
    /\ procs' = [procs EXCEPT ![c] =
                    [cmd |-> server_table[srv[c]].args, enters |-> @.enters + 1,
                     exits |-> @.exits]]
    /\ conn' = [conn EXCEPT ![c] = c]
    /\ pc' = [pc EXCEPT ![c] = "enter_session"]
    /\ UNCHANGED <<srv, sess, sessions, outcome, server_table>>

\* lines 163-166: __aenter__ raises (the command cannot be started); the
\* with block is never entered, so no __aexit__ runs
StdioClientEnterFails(c) ==
    /\ pc[c] = "open_transport"
    /\ outcome' = [outcome EXCEPT ![c] = Raise("TransportError")]
    /\ pc' = [pc EXCEPT ![c] = "done"]
    /\ UNCHANGED <<srv, conn, sess, procs, sessions, server_table>>

\* line 167: ClientSession(read, write).__aenter__ on the call's own streams
ClientSessionEnter(c) ==
    /\ pc[c] = "enter_session"
    /\ sessions' = [sessions EXCEPT ![c] =
                       [@ EXCEPT !.proc = conn[c], !.enters = @ + 1]]
    /\ sess' = [sess EXCEPT ![c] = c]
    /\ pc' = [pc EXCEPT ![c] = "initialize"]
    /\ UNCHANGED <<srv, conn, procs, outcome, server_table>>

\* line 168: await session.initialize() sends the initialize request
InitializeSend(c) ==
    /\ pc[c] = "initialize"
    /\ pc' = [pc EXCEPT ![c] = "await_initialize"]
    /\ UNCHANGED <<srv, conn, sess, procs, sessions, outcome, server_table>>

\* line 168: the handshake completes
InitializeOk(c) ==
    /\ pc[c] = "await_initialize"
    /\ sessions' = [sessions EXCEPT ![sess[c]].initialized = TRUE]
    /\ pc' = [pc EXCEPT ![c] = "call_tool"]
    /\ UNCHANGED <<srv, conn, sess, procs, outcome, server_table>>

\* mutant of InitializeFails: the handshake error is swallowed and the call
\* goes on to call_tool
InitializeFailsSwallowed(c) ==
    /\ pc[c] = "await_initialize"
    /\ pc' = [pc EXCEPT ![c] = "call_tool"]
    /\ UNCHANGED <<srv, conn, sess, procs, sessions, outcome, server_table>>

\* line 168: the handshake fails (error response, or the process died); the
\* exception leaves both with blocks
InitializeFails(c) ==
    /\ pc[c] = "await_initialize"
    /\ outcome' = [outcome EXCEPT ![c] = Raise("HandshakeError")]
    /\ pc' = [pc EXCEPT ![c] = "exit_session"]
    /\ UNCHANGED <<srv, conn, sess, procs, sessions, server_table>>

\* mutant of CallToolSend: a result another call already obtained is
\* returned from a cache and no request is sent; without one the request is
\* sent as usual
CallToolSendCached(c) ==
    /\ pc[c] = "call_tool"
    /\ IF \E d \in Calls \ {c} : outcome[d].kind = "return"
       THEN /\ \E d \in Calls \ {c} :
                  /\ outcome[d].kind = "return"
                  /\ outcome' = [outcome EXCEPT ![c] = outcome[d]]
            /\ pc' = [pc EXCEPT ![c] = "exit_session"]
            /\ UNCHANGED sessions
       ELSE /\ sessions' = [sessions EXCEPT ![sess[c]].requests = @ + 1]
            /\ pc' = [pc EXCEPT ![c] = "await_result"]
            /\ UNCHANGED outcome
    /\ UNCHANGED <<srv, conn, sess, procs, server_table>>

\* line 169: session.call_tool(tool_name, arguments) sends the request
CallToolSend(c) ==
    /\ pc[c] = "call_tool"
    /\ sessions' = [sessions EXCEPT ![sess[c]].requests = @ + 1]
    /\ pc' = [pc EXCEPT ![c] = "await_result"]
    /\ UNCHANGED <<srv, conn, sess, procs, outcome, server_table>>

\* lines 169-186: call_tool returns a CallToolResult (isError set when the
\* tool failed on the server); the code decodes it and returns the value
CallToolReturns(c, result) ==
    /\ pc[c] = "await_result"
    /\ outcome' = [outcome EXCEPT ![c] = Return(DecodeResult(result), result)]
    /\ pc' = [pc EXCEPT ![c] = "exit_session"]
    /\ UNCHANGED <<srv, conn, sess, procs, sessions, server_table>>

\* mutant of CallToolRaises: the request is retried after an error
CallToolRaisesRetry(c) ==
    /\ pc[c] = "await_result"
    /\ pc' = [pc EXCEPT ![c] = "call_tool"]
    /\ UNCHANGED <<srv, conn, sess, procs, sessions, outcome, server_table>>

\* mutant of CallToolRaises: no with blocks, the exception reaches the caller
\* with the session and the transport still open
CallToolRaisesNoTeardown(c) ==
    /\ pc[c] = "await_result"
    /\ outcome' = [outcome EXCEPT ![c] = Raise("McpError")]
    /\ pc' = [pc EXCEPT ![c] = "done"]
    /\ UNCHANGED <<srv, conn, sess, procs, sessions, server_table>>

\* line 169: call_tool raises (JSON-RPC error response, or the transport
\* broke while waiting); the exception leaves both with blocks
CallToolRaises(c) ==
    /\ pc[c] = "await_result"
    /\ outcome' = [outcome EXCEPT ![c] = Raise("McpError")]
    /\ pc' = [pc EXCEPT ![c] = "exit_session"]
    /\ UNCHANGED <<srv, conn, sess, procs, sessions, server_table>>

\* line 167: ClientSession.__aexit__, on return and on exception alike
ClientSessionExit(c) ==
    /\ pc[c] = "exit_session"
    /\ sessions' = [sessions EXCEPT ![sess[c]].exits = @ + 1]
    /\ pc' = [pc EXCEPT ![c] = "exit_transport"]
    /\ UNCHANGED <<srv, conn, sess, procs, outcome, server_table>>

\* lines 163-166, 188: stdio_client.__aexit__ stops the subprocess, then
\* asyncio.run hands the value or the exception to the caller
StdioClientExit(c) ==
    /\ pc[c] = "exit_transport"
    /\ procs' = [procs EXCEPT ![conn[c]].exits = @ + 1]
    /\ pc' = [pc EXCEPT ![c] = "done"]
    /\ UNCHANGED <<srv, conn, sess, sessions, outcome, server_table>>

(***************************************************************************)
(* The generator.                                                          *)
(***************************************************************************)
RECURSIVE Replace(_, _, _)
\* str.replace(old, new) for one-character old and new
Replace(s, old, new) ==
    IF s = <<>> THEN <<>>
    ELSE <<IF Head(s) = old THEN new ELSE Head(s)>> \o Replace(Tail(s), old, new)

\* line 18: name.replace("-", "_").replace(".", "_")
sanitize_name(name) == Replace(Replace(name, "-", "_"), ".", "_")

\* lines 26-38: type_mapping.get(type_str, "Any")
get_python_type(type_str) ==
    CASE type_str = "string" -> "str"
      [] type_str = "integer" -> "int"
      [] type_str = "number" -> "float"
      [] type_str = "boolean" -> "bool"
      [] type_str = "array" -> "list"
      [] type_str = "object" -> "dict"
      [] type_str = "null" -> "None"
      [] OTHER -> "Any"

\* what a Python source file accepts as a function name
Letters == {"a", "b", "d", "t", "x", "_"}
IsIdentifier(s) ==
    /\ Len(s) >= 1
    /\ s[1] \in Letters
    /\ \A i \in 1..Len(s) : s[i] \in Letters \cup Digits

(***************************************************************************)
(* Tool descriptors a registry can list: the name, the properties of the   *)
(* input schema in declaration order, and the schema's required list.      *)
(***************************************************************************)
Prop(n, ty) == [name |-> n, type |-> ty]

ToolPool ==
    { [name |-> <<"a", "_", "b">>, properties |-> <<>>, required |-> {}],
      [name |-> <<"a", "-", "b">>,
       properties |-> <<Prop("page", "integer")>>, required |-> {"page"}],
      [name |-> <<"a", ".", "b">>,
       properties |-> <<Prop("limit", "integer"), Prop("query", "string")>>,
       required |-> {"query"}],
      [name |-> <<"2", "-", "a">>,
       properties |-> <<Prop("path", "string"), Prop("mode", "uuid")>>,
       required |-> {"path"}] }

Range(f) == {f[i] : i \in DOMAIN f}

\* the answers of list_tools: tool names are unique within a registry
Catalogs ==
    {cat \in SeqsUpTo(ToolPool, MaxTools) :
        \A i, j \in DOMAIN cat : i # j => cat[i].name # cat[j].name}

\* lines 70-76: one entry of params per property, in the order of properties
RECURSIVE BuildParams(_, _)
BuildParams(properties, required) ==
    IF properties = <<>> THEN <<>>
    ELSE << [name |-> Head(properties).name,
             type |-> get_python_type(Head(properties).type),
             default |-> Head(properties).name \notin required] >>
         \o BuildParams(Tail(properties), required)

\* lines 60-108: the function emitted for one tool
WrapperDef(server_name, tool) ==
    [ident |-> sanitize_name(tool.name),
     params |-> BuildParams(tool.properties, tool.required),
     server |-> server_name,
     tool |-> tool.name,
     args |-> [i \in DOMAIN tool.properties |-> tool.properties[i].name]]

NoContent == [defs |-> <<>>, servers |-> {}, imports |-> <<>>, exports |-> <<>>]

PyFile(stem) == stem \o <<".", "p", "y">>

RECURSIVE Flatten(_)
Flatten(ss) == IF ss = <<>> THEN <<>> ELSE Head(ss) \o Flatten(Tail(ss))

GenInit ==
    /\ gpc = "connect"
    /\ gi = 1
    /\ catalog = <<>>
    /\ files = <<>>
    /\ server_tools = <<>>

\* lines 262-277: asyncio.run(get_tools_from_server(...)) returns result.tools
GetToolsFromServer(tools) ==
    /\ gpc = "connect"
    /\ catalog' = tools
    /\ gpc' = "wrap"
    /\ UNCHANGED <<gi, files, server_tools>>

\* lines 262-276: the registry cannot be reached; the exception is caught
\* nowhere in main
GetToolsFromServerFails ==
    /\ gpc = "connect"
    /\ gpc' = "aborted"
    /\ UNCHANGED <<gi, catalog, files, server_tools>>

\* lines 41-115 and 280-281: generate_wrapper_file writes the registry's
\* module and returns the tool names, which main stores; the loop goes on
GenerateWrapperFile ==
    /\ gpc = "wrap"
    /\ LET server_name == servers[gi]
           content == [NoContent EXCEPT !.defs =
                          [i \in DOMAIN catalog |-> WrapperDef(server_name, catalog[i])]]
           tool_names == [i \in DOMAIN catalog |-> catalog[i].name]
       IN /\ files' = (PyFile(sanitize_name(server_name)) :> content) @@ files
          /\ server_tools' = server_tools \o <<[server |-> server_name,
                                                 tool_names |-> tool_names]>>
    /\ gi' = gi + 1
    /\ gpc' = IF gi < Len(servers) THEN "connect" ELSE "client"
    /\ UNCHANGED catalog

\* lines 118-194 and 285: generate_mcp_client writes mcp_client.py with the
\* SERVERS table
GenerateMcpClient ==
    /\ gpc = "client"
    /\ files' = (PyFile(<<"m", "c", "p", "_", "c", "l", "i", "e", "n", "t">>)
                    :> [NoContent EXCEPT !.servers = ServerNames]) @@ files
    /\ gpc' = "init"
    /\ UNCHANGED <<gi, catalog, server_tools>>

\* lines 197-236 and 289: generate_init_file writes __init__.py
GenerateInitFile ==
    /\ gpc = "init"
    /\ LET imports == [i \in DOMAIN server_tools |->
                          [module |-> sanitize_name(server_tools[i].server),
                           names |-> server_tools[i].tool_names]]
           exports == Flatten([i \in DOMAIN server_tools |->
                                  server_tools[i].tool_names])
       IN files' = (PyFile(<<"_", "_", "i", "n", "i", "t", "_", "_">>)
                       :> [NoContent EXCEPT !.imports = imports,
                                            !.exports = exports]) @@ files
    /\ gpc' = "complete"
    /\ UNCHANGED <<gi, catalog, server_tools>>

(***************************************************************************)
(* Specifications.                                                         *)
(*   Spec        concurrent invocations of call_mcp_tool                   *)
(*   DecodeSpec  one invocation, over every response up to MaxSegs         *)
(*   GenSpec     one run of the generator's main                           *)
(***************************************************************************)
Init == ClientInit /\ GenInit

Next ==
    \/ \E c \in Calls, n \in ServerNames \cup {UnknownServer} :
           CallMcpTool(c, n) /\ UNCHANGED genVars
    \/ \E c \in Calls : StdioClientEnter(c) /\ UNCHANGED genVars
    \/ \E c \in Calls : StdioClientEnterFails(c) /\ UNCHANGED genVars
    \/ \E c \in Calls : ClientSessionEnter(c) /\ UNCHANGED genVars
    \/ \E c \in Calls : InitializeSend(c) /\ UNCHANGED genVars
    \/ \E c \in Calls : InitializeOk(c) /\ UNCHANGED genVars
    \/ \E c \in Calls : InitializeFails(c) /\ UNCHANGED genVars
    \/ \E c \in Calls : CallToolSend(c) /\ UNCHANGED genVars
    \/ \E c \in Calls, r \in ResponsePool :
           CallToolReturns(c, r) /\ UNCHANGED genVars
    \/ \E c \in Calls : CallToolRaises(c) /\ UNCHANGED genVars
    \/ \E c \in Calls : ClientSessionExit(c) /\ UNCHANGED genVars
    \/ \E c \in Calls : StdioClientExit(c) /\ UNCHANGED genVars

Spec == Init /\ [][Next]_vars

DecodeNext ==
    \/ \E n \in ServerNames : CallMcpTool(1, n) /\ UNCHANGED genVars
    \/ StdioClientEnter(1) /\ UNCHANGED genVars
    \/ StdioClientEnterFails(1) /\ UNCHANGED genVars
    \/ ClientSessionEnter(1) /\ UNCHANGED genVars
    \/ InitializeSend(1) /\ UNCHANGED genVars
    \/ InitializeOk(1) /\ UNCHANGED genVars
    \/ InitializeFails(1) /\ UNCHANGED genVars
    \/ CallToolSend(1) /\ UNCHANGED genVars
    \/ \E r \in AllResponses : CallToolReturns(1, r) /\ UNCHANGED genVars
    \/ CallToolRaises(1) /\ UNCHANGED genVars
    \/ ClientSessionExit(1) /\ UNCHANGED genVars
    \/ StdioClientExit(1) /\ UNCHANGED genVars

DecodeSpec == Init /\ [][DecodeNext]_vars

GenNext ==
    \/ \E tools \in Catalogs : GetToolsFromServer(tools) /\ UNCHANGED clientVars
    \/ GetToolsFromServerFails /\ UNCHANGED clientVars
    \/ GenerateWrapperFile /\ UNCHANGED clientVars
    \/ GenerateMcpClient /\ UNCHANGED clientVars
    \/ GenerateInitFile /\ UNCHANGED clientVars

GenSpec == Init /\ [][GenNext]_vars

(***************************************************************************)
(* Properties of the invocation client.                                    *)
(***************************************************************************)
Done(c) == pc[c] = "done"

\* C1 as stated: for every outcome of a call (success, decode fallback,
\* remote error raised by call_tool, handshake failure, transport failure)
\* the session teardown and the transport teardown have each run exactly
\* once when the call returns or raises.
C1_TeardownOnceInEveryOutcome ==
    \A c \in Calls :
        (Done(c) /\ outcome[c].err # "KeyError") =>
            sessions[c].exits = 1 /\ procs[c].exits = 1

\* C1 amended: a teardown never runs more often than its context was
\* entered, the session is torn down before its transport, and when the call
\* returns or raises each context it entered has been torn down exactly
\* once: both of them in every outcome that follows the opening of the
\* transport, neither when the transport could not be opened.
C1_TeardownOncePerEnteredContext ==
    \A c \in Calls :
        /\ sessions[c].exits <= sessions[c].enters
        /\ procs[c].exits <= procs[c].enters
        /\ procs[c].exits <= sessions[c].exits
        /\ Done(c) =>
              /\ sessions[c].exits = sessions[c].enters
              /\ procs[c].exits = procs[c].enters
              /\ IF outcome[c].err \in {"KeyError", "TransportError"}
                 THEN sessions[c].exits = 0 /\ procs[c].exits = 0
                 ELSE sessions[c].exits = 1 /\ procs[c].exits = 1

C1_Witness ==
    \E c, d \in Calls :
        /\ Done(c) /\ outcome[c].err = "McpError"
        /\ sessions[c].exits = 1 /\ procs[c].exits = 1
        /\ Done(d) /\ outcome[d].err = "TransportError"
        /\ sessions[d].exits = 0 /\ procs[d].exits = 0

\* C2: a tool-call request is sent on a session only after its initialize
\* handshake completed; while the handshake is pending, and after it failed,
\* the session has carried no request.
C2_HandshakeBeforeRequest ==
    \A c \in Calls :
        /\ sessions[c].requests > 0 => sessions[c].initialized
        /\ pc[c] = "await_initialize" => sessions[c].requests = 0
        /\ outcome[c].err = "HandshakeError" =>
              sessions[c].requests = 0 /\ ~sessions[c].initialized

C2_Witness ==
    \E c, d \in Calls :
        /\ sessions[c].initialized /\ sessions[c].requests = 1
        /\ Done(d) /\ outcome[d].err = "HandshakeError"

\* C3 as stated: every finished call with a configured registry name has
\* sent exactly one tool-invocation request.
C3_ExactlyOneRequestPerCall ==
    \A c \in Calls :
        (Done(c) /\ srv[c] \in ServerNames) => sessions[c].requests = 1

\* C3 amended: a call sends at most one request; it has sent exactly one
\* when it returns a value (nothing is served from a cache), when call_tool
\* raised, and whenever its handshake completed; it has sent none only when
\* it failed before the request, at the lookup, the transport or the
\* handshake.
C3_AtMostOneRequestOneAfterHandshake ==
    \A c \in Calls :
        /\ sessions[c].requests <= 1
        /\ outcome[c].kind = "return" => sessions[c].requests = 1
        /\ outcome[c].err = "McpError" => sessions[c].requests = 1
        /\ (Done(c) /\ sessions[c].initialized) => sessions[c].requests = 1
        /\ (Done(c) /\ sessions[c].requests = 0) =>
              outcome[c].err \in {"KeyError", "TransportError", "HandshakeError"}

C3_Witness ==
    \E c, d \in Calls :
        /\ c # d /\ srv[c] = srv[d]
        /\ Done(c) /\ outcome[c].kind = "return" /\ sessions[c].requests = 1
        /\ Done(d) /\ outcome[d].err = "McpError" /\ sessions[d].requests = 1

(***************************************************************************)
(* The states of the specification's per-call state machine.  While an     *)
(* exception unwinds the with blocks the call is still in the state the    *)
(* failure occurred in; it is Closed when asyncio.run has handed over.     *)
(***************************************************************************)
Phase(c) ==
    CASE pc[c] \in {"idle", "open_transport"} -> "Unconnected"
      [] pc[c] \in {"enter_session", "initialize", "await_initialize"} -> "Connected"
      [] pc[c] = "call_tool" -> "Initialized"
      [] pc[c] = "await_result" -> "AwaitingResult"
      [] pc[c] \in {"exit_session", "exit_transport"} ->
            IF outcome[c].kind = "return" THEN "Decoded"
            ELSE IF sessions[c].requests > 0 THEN "AwaitingResult"
            ELSE IF sessions[c].initialized THEN "Initialized"
            ELSE "Connected"
      [] pc[c] = "done" -> "Closed"

Rank(ph) ==
    CASE ph = "Unconnected" -> 0 [] ph = "Connected" -> 1 [] ph = "Initialized" -> 2
      [] ph = "AwaitingResult" -> 3 [] ph = "Decoded" -> 4 [] ph = "Closed" -> 5

\* C4: each call moves only along Unconnected -> Connected -> Initialized
\* -> AwaitingResult -> Decoded -> Closed, one state at a time and never
\* back; from any state but Decoded it can go straight to Closed, and then
\* an error is recorded; nothing about a Closed call changes any more; every
\* transport and session is released at most once, and exactly once by the
\* time the call that acquired it is Closed.
C4_LinearStateMachine ==
    /\ [][\A c \in Calls :
            /\ \/ Phase(c)' = Phase(c)
               \/ Rank(Phase(c)') = Rank(Phase(c)) + 1
               \/ Phase(c)' = "Closed" /\ outcome'[c].kind = "raise"
            /\ (Phase(c) # "Closed" /\ Phase(c)' = "Closed") =>
                  (outcome'[c].kind = "raise" <=> Phase(c) # "Decoded")
            /\ Phase(c) = "Closed" =>
                  /\ pc'[c] = pc[c] /\ outcome'[c] = outcome[c]
                  /\ procs'[c] = procs[c] /\ sessions'[c] = sessions[c]
                  /\ conn'[c] = conn[c] /\ sess'[c] = sess[c]]_vars
    /\ [](\A c \in Calls :
            /\ procs[c].exits <= 1 /\ sessions[c].exits <= 1
            /\ Phase(c) = "Closed" =>
                  /\ procs[c].enters = 1 => procs[c].exits = 1
                  /\ sessions[c].enters = 1 => sessions[c].exits = 1)

C4_Witness ==
    \E c, d \in Calls :
        /\ Phase(c) = "Closed" /\ outcome[c].kind = "return" /\ procs[c].exits = 1
        /\ Phase(d) = "Connected" /\ pc[d] = "exit_transport"
        /\ outcome[d].kind = "raise"

\* C5 as stated: a response that signals a tool-execution error (isError)
\* is never handed to the caller as an ordinary return value.
C5_ToolErrorIsRaised ==
    \A c \in Calls :
        ~(Done(c) /\ outcome[c].kind = "return" /\ outcome[c].result.isError)

\* C7: a call with a registry name that is not a key of SERVERS fails with
\* an error at once and has opened no transport, started no session and
\* sent no handshake and no request.
C7_UnknownRegistryNoEffect ==
    \A c \in Calls :
        (pc[c] # "idle" /\ srv[c] \notin DOMAIN SERVERS) =>
            /\ Done(c) /\ outcome[c] = Raise("KeyError")
            /\ conn[c] = 0 /\ sess[c] = 0
            /\ procs[c] = NoProc /\ sessions[c] = NoSession

C7_Witness ==
    \E c, d \in Calls :
        /\ Done(c) /\ srv[c] = UnknownServer /\ outcome[c].err = "KeyError"
        /\ procs[d].enters = 1 /\ srv[d] \in ServerNames

(***************************************************************************)
(* The decoded result, stated from the shape of the response content.      *)
(***************************************************************************)
TextsInOrder(content) ==
    LET kept == SelectSeq(content, HasText)
    IN [i \in 1..Len(kept) |-> kept[i].text]

\* C6: the value a call returns is determined by the content of the
\* response: one segment that is text gives the JSON value of the text, or
\* the text itself when it is not JSON; more than one segment gives the
\* list of the texts of the text segments, in order, the others dropped; no
\* content, absent or empty, gives None.
C6_DecodedByContentShape ==
    \A c \in Calls :
        outcome[c].kind = "return" =>
            LET r == outcome[c].result
                n == Len(r.content)
                v == outcome[c].val
            IN /\ (~r.hasContent \/ n = 0) => v = PyNone
               /\ (r.hasContent /\ n = 1 /\ r.content[1].type = "text") =>
                     IF JsonLoads(r.content[1].text).ok
                     THEN v = JsonLoads(r.content[1].text).val
                     ELSE v.t = "str" /\ v.v = r.content[1].text
               /\ (r.hasContent /\ n > 1) =>
                     v.t = "list" /\ v.v = TextsInOrder(r.content)

C6_Witness ==
    \E c \in Calls :
        /\ Done(c) /\ outcome[c].kind = "return"
        /\ outcome[c].result.content = <<ImageSeg, TextSeg(<<"0", "7">>)>>
        /\ outcome[c].val = PyList(<< <<"0", "7">> >>)

(***************************************************************************)
(* Properties of the generator.                                            *)
(***************************************************************************)
WrapperFiles == {f \in DOMAIN files : files[f].defs # <<>>}

DefsWritten == UNION {Range(files[f].defs) : f \in DOMAIN files}

ToolNamed(n) == CHOOSE t \in ToolPool : t.name = n

NonIdentifierChars(name) ==
    {i \in 1..Len(name) : name[i] \notin Letters \cup Digits}

\* C8 as stated: the parameter list emitted for a tool with N required and
\* M optional parameters has N parameters without default and M with
\* default None, and every parameter without default comes before every
\* parameter with one, in whatever order the schema declares them.
C8_RequiredParametersFirst ==
    \A d \in DefsWritten :
        LET ps == d.params
            t == ToolNamed(d.tool)
        IN /\ Cardinality({i \in DOMAIN ps : ~ps[i].default})
                 = Cardinality(t.required)
           /\ Cardinality({i \in DOMAIN ps : ps[i].default})
                 = Len(t.properties) - Cardinality(t.required)
           /\ \A i, j \in DOMAIN ps : (ps[i].default /\ ~ps[j].default) => j < i

\* C9 as stated: the identifier emitted for a tool name that contains
\* non-identifier characters is a valid identifier.
C9_SanitizedNameIsIdentifier ==
    \A d \in DefsWritten :
        NonIdentifierChars(d.tool) # {} => IsIdentifier(d.ident)

\* C10 as stated: no artifact is written for a registry that lists two
\* tools whose names sanitize to the same identifier, so no written module
\* defines one identifier twice.
C10_CollisionFailsGeneration ==
    \A f \in DOMAIN files :
        \A i, j \in DOMAIN files[f].defs :
            (i # j /\ files[f].defs[i].tool # files[f].defs[j].tool) =>
                files[f].defs[i].ident # files[f].defs[j].ident

WrapperFileOf(i) == PyFile(sanitize_name(servers[i]))

\* C11 as stated: when the introspection of one registry fails, the wrapper
\* artifact of every other configured registry, before or after it in the
\* configuration order, is written all the same.
C11_UnreachableRegistryAbortsOnlyItself ==
    gpc = "aborted" =>
        \A i \in 1..Len(servers) : i # gi => WrapperFileOf(i) \in DOMAIN files

InitFile == PyFile(<<"_", "_", "i", "n", "i", "t", "_", "_">>)

IdentsDefinedIn(f) ==
    IF f \in DOMAIN files THEN {d.ident : d \in Range(files[f].defs)} ELSE {}

\* C13 as stated: every name the aggregator imports from a registry's
\* module, and every name of its __all__ list, is the identifier of a proxy
\* that module defines, and every proxy defined is imported and listed.
C13_AggregatorExportsDefinedProxies ==
    InitFile \in DOMAIN files =>
        LET init == files[InitFile]
            imported == UNION {Range(init.imports[i].names) :
                                  i \in DOMAIN init.imports}
            defined == UNION {IdentsDefinedIn(WrapperFileOf(i)) :
                                  i \in 1..Len(servers)}
        IN /\ \A i \in DOMAIN init.imports :
                 Range(init.imports[i].names)
                     \subseteq IdentsDefinedIn(PyFile(init.imports[i].module))
           /\ Range(init.exports) \subseteq defined
           /\ defined \subseteq imported
           /\ defined \subseteq Range(init.exports)

\* C14: a response whose content is one segment that is not text decodes to
\* the empty list, not to None; None is returned only for absent or empty
\* content, or for a single text segment holding the JSON text null.
C14_SingleNonTextGivesEmptyList ==
    \A c \in Calls :
        outcome[c].kind = "return" =>
            LET r == outcome[c].result
                v == outcome[c].val
            IN /\ (r.hasContent /\ Len(r.content) = 1
                     /\ r.content[1].type # "text") =>
                     v.t = "list" /\ Len(v.v) = 0
               /\ v.t = "None" =>
                     \/ ~r.hasContent
                     \/ Len(r.content) = 0
                     \/ /\ Len(r.content) = 1
                        /\ r.content[1].type = "text"
                        /\ r.content[1].text = <<"n", "u", "l", "l">>

C14_Witness ==
    \E c \in Calls :
        /\ Done(c) /\ outcome[c].kind = "return"
        /\ outcome[c].result.content = <<ImageSeg>>
        /\ outcome[c].val = PyList(<<>>)

\* what belongs to one invocation: its position, its arguments, its
\* transport and session and what it hands to its caller
CallState(c) == <<pc[c], srv[c], conn[c], sess[c], procs[c], sessions[c], outcome[c]>>

\* C12: under any interleaving of invocations no transport and no session
\* is held by two of them, a session runs on the transport of the
\* invocation that holds it and carries at most one request, the SERVERS
\* table is never written, and every step changes the state of one
\* invocation only, so no invocation's result or teardown depends on another.
C12_InvocationsShareNothing ==
    /\ [](\A c, d \in Calls :
            /\ (c # d /\ conn[c] # 0) => conn[c] # conn[d]
            /\ (c # d /\ sess[c] # 0) => sess[c] # sess[d]
            /\ sess[c] # 0 => sessions[sess[c]].proc = conn[c]
            /\ sessions[c].requests <= 1
            /\ server_table = SERVERS)
    /\ [][/\ server_table' = server_table
          /\ \E c \in Calls :
                \A d \in Calls \ {c} : CallState(d)' = CallState(d)]_vars

C12_Witness ==
    \E c, d \in Calls :
        /\ c # d /\ srv[c] = srv[d]
        /\ pc[c] = "await_result" /\ pc[d] = "await_result"
        /\ conn[c] # conn[d] /\ sess[c] # sess[d]
        /\ sessions[sess[c]].requests = 1 /\ sessions[sess[d]].requests = 1

====
